---- MODULE Spec2Model ----
(***************************************************************************)
(* Model of the generic best-first search kernel (common/path_finder) and  *)
(* of its instantiation HeatMap (days/day17): a shortest path over a grid  *)
(* of weights where a straight run has a minimum and a maximum length.     *)
(***************************************************************************)
EXTENDS Integers, Sequences, FiniteSets, Bags, TLC

\* ---------------------------------------------------------------- bounds
MaxCells == 6      \* the maps have at most MaxCells cells
MaxSteps == 2      \* HeatChecker::new is called with arguments 0..MaxSteps
MaxPops == 200     \* extractions explored in one invocation
MaxNonePops == 16  \* the same, for an invocation with the NoneSkipper
MaxAnyCells == 3   \* cells of the maps searched with min_steps = 0
MaxInputLen == 4   \* characters of the inputs that are not the text of a map

\* ------------------------------------------------------ program constants
DefaultMinSteps == 1
DefaultMaxSteps == 3
MaxDigit == 9      \* the greatest weight: char::to_digit(10)
Part2MinSteps == 4
Part2MaxSteps == 10
ExpectedPart1 == 102   \* test_part1: expected
ExpectedPart2 == 94    \* test_part2: expected

\* the weights the maps are drawn from
Weights == {0, 1}

VARIABLES
    input,      \* the text given to part1 / part2, a sequence of characters
    map,        \* HeatMap.map: the rows of weights
    checker,    \* HeatMap.checker
    finder,     \* the associated types of the path finder being run
    pc,         \* "input", "failed", "parsed", "configured", "search",
                \* "done" or "panicked"
    queue,      \* find_best_path: the frontier
    skipper,    \* find_best_path: the fingerprints the skipper holds
    pops,       \* extractions made by this invocation
    expanded,   \* calls of get_next_states made by this invocation
    tied,       \* an extraction of this invocation had several candidates
    last,       \* what the loop did with the item extracted last, and
                \* the successors it pushed
    firsts,     \* history: for each fingerprint extracted in this invocation,
                \* the loss of the first state extracted with it
    result,     \* what find_best_path returned
    answer,     \* what best_path returned
    previous    \* the answer of the invocation before this one

vars == <<input, map, checker, finder, pc, queue, skipper, pops, expanded,
          tied, last, firsts, result, answer, previous>>

\* Option: None is the empty sequence, Some(v) the sequence of v alone
None == <<>>
Some(v) == <<v>>
Unwrap(o) == o[1]

\* ------------------------------------------------------------- Direction
Directions == {"East", "North", "West", "South"}

\* Direction::iter
DirectionIter == <<"East", "North", "West", "South">>

turn_back(d) ==
    CASE d = "East" -> "West"
      [] d = "North" -> "South"
      [] d = "West" -> "East"
      [] d = "South" -> "North"

\* From<Direction> for Pos2: the step a direction makes
Offset(d) ==
    CASE d = "East" -> <<1, 0>>
      [] d = "North" -> <<0, -1>>
      [] d = "West" -> <<-1, 0>>
      [] d = "South" -> <<0, 1>>

\* ------------------------------------------------------------------ Pos2
Pos2(x, y) == [x |-> x, y |-> y]

\* Pos2::abs on usize: x.abs() + y.abs(), abs being the identity
abs(p) == p.x + p.y

\* a plausible slip: a saturating subtraction, which stays at zero
CheckAddSaturating(p, d) ==
    CASE d = "East" -> Some(Pos2(p.x + 1, p.y))
      [] d = "North" -> Some(Pos2(p.x, IF p.y >= 1 THEN p.y - 1 ELSE 0))
      [] d = "West" -> Some(Pos2(IF p.x >= 1 THEN p.x - 1 ELSE 0, p.y))
      [] d = "South" -> Some(Pos2(p.x, p.y + 1))

\* Pos2::check_add: checked_sub yields None below zero
check_add(p, d) ==
    CASE d = "East" -> Some(Pos2(p.x + 1, p.y))
      [] d = "North" -> IF p.y >= 1 THEN Some(Pos2(p.x, p.y - 1)) ELSE None
      [] d = "West" -> IF p.x >= 1 THEN Some(Pos2(p.x - 1, p.y)) ELSE None
      [] d = "South" -> Some(Pos2(p.x, p.y + 1))

\* Grid navigation primitive: one step inside the matrix, with the value of
\* the cell entered, or None when the step leaves the matrix.
safe_matrix_add_and_get(p, m, d) ==
    LET o == check_add(p, d)
        q == Unwrap(o)
    IN IF o = None THEN None
       ELSE IF q.y >= Len(m) THEN None
       ELSE IF q.x >= Len(m[q.y + 1]) THEN None
       ELSE Some([pos |-> q, value |-> m[q.y + 1][q.x + 1]])

\* ----------------------------------------------------------- HeatChecker
\* HeatChecker::new: the assertion it makes
NewAccepts(min_steps, max_steps) == max_steps >= min_steps

HeatCheckerNew(min_steps, max_steps) ==
    [min_steps |-> min_steps, max_steps |-> max_steps]

\* a plausible slip: only the lower end of the range is tested
CheckMinOnly(ck, straight) == ck.min_steps <= straight

\* HeatChecker::check
check(ck, straight) == ck.min_steps <= straight /\ straight <= ck.max_steps

\* -------------------------------------------------------------- HeatFlow
\* HeatDebugger::new: no cell entered yet
DebuggerNew ==
    [direction |-> None, run |-> 0, longest |-> 0, shortest |-> None,
     reversed |-> FALSE]

\* HeatDebugger::push: one call for each cell entered.  Of the log of the
\* calls the model keeps what replaying the single-cell steps needs: the
\* direction of the last step and the length of the run it ends, the length
\* of the longest run, of the shortest run that a turn has ended, and
\* whether a step has reversed the step before it.
DebuggerPush(dbg, pos, direction, loss, straight) ==
    IF dbg.direction = Some(direction)
    THEN [dbg EXCEPT !.run = dbg.run + 1,
                     !.longest = IF dbg.run + 1 > dbg.longest
                                 THEN dbg.run + 1 ELSE dbg.longest]
    ELSE [direction |-> Some(direction),
          run |-> 1,
          longest |-> IF dbg.longest < 1 THEN 1 ELSE dbg.longest,
          shortest |-> IF dbg.direction = None THEN None
                       ELSE IF dbg.shortest = None THEN Some(dbg.run)
                       ELSE IF dbg.run < Unwrap(dbg.shortest)
                       THEN Some(dbg.run) ELSE dbg.shortest,
          reversed |-> dbg.reversed
                       \/ (dbg.direction # None
                           /\ direction = turn_back(Unwrap(dbg.direction)))]

NatCmp(a, b) == IF a < b THEN "Less" ELSE IF a > b THEN "Greater" ELSE "Equal"

\* a plausible slip: the losses compared the natural way round, which makes
\* the max-heap extract the highest loss first
CmpLossAscending(self, other) ==
    IF NatCmp(self.loss, other.loss) # "Equal"
    THEN NatCmp(self.loss, other.loss)
    ELSE NatCmp(abs(self.pos), abs(other.pos))

\* a plausible slip: the loss left out of the comparison
CmpPositionOnly(self, other) == NatCmp(abs(self.pos), abs(other.pos))

\* a plausible slip: the secondary key left out of the comparison
CmpLossOnly(self, other) == NatCmp(other.loss, self.loss)

\* impl Ord for HeatFlow
Cmp(self, other) ==
    IF NatCmp(other.loss, self.loss) # "Equal"
    THEN NatCmp(other.loss, self.loss)
    ELSE NatCmp(abs(self.pos), abs(other.pos))

\* a plausible slip: the direction left out of the fingerprint
FingerprintNoDirection(item) == <<item.pos, None, item.straight>>

\* FingerprintItem for HeatFlow
get_fingerprint(item) == <<item.pos, item.direction, item.straight>>

\* --------------------------------------------------------------- HeatMap
\* a plausible slip: the weight of the start cell counted
StartItemCountsCell(m) ==
    [loss |-> m[1][1], straight |-> 0, pos |-> Pos2(0, 0),
     direction |-> None, debugger |-> DebuggerNew]

\* HeatMap::get_start_item
get_start_item(m) ==
    [loss |-> 0, straight |-> 0, pos |-> Pos2(0, 0), direction |-> None,
     debugger |-> DebuggerNew]

\* HeatMap::is_finished
is_finished(m, item) ==
    item.pos.x = Len(m[1]) - 1 /\ item.pos.y = Len(m) - 1

\* a plausible slip: a step that would leave the matrix is clamped to the
\* edge (a saturating addition) instead of ending the move
RECURSIVE WalkClamped(_, _, _, _)
WalkClamped(m, direction, steps, st) ==
    IF steps = 0 THEN Some(st)
    ELSE LET o == safe_matrix_add_and_get(st.pos, m, direction)
             r == IF o = None
                  THEN [pos |-> st.pos, value |-> m[st.pos.y + 1][st.pos.x + 1]]
                  ELSE Unwrap(o)
         IN WalkClamped(m, direction, steps - 1,
                        [loss |-> st.loss + r.value,
                         straight |-> st.straight + 1,
                         pos |-> r.pos,
                         direction |-> st.direction,
                         debugger |-> DebuggerPush(st.debugger, r.pos,
                                                   direction,
                                                   st.loss + r.value,
                                                   st.straight + 1)])

\* a plausible slip: the weight is added after the loop, for the cell the
\* move ends in only
RECURSIVE WalkLastCellOnly(_, _, _, _)
WalkLastCellOnly(m, direction, steps, st) ==
    IF steps = 0 THEN Some(st)
    ELSE LET o == safe_matrix_add_and_get(st.pos, m, direction)
             r == Unwrap(o)
             loss == IF steps = 1 THEN st.loss + r.value ELSE st.loss
         IN IF o = None THEN None
            ELSE WalkLastCellOnly(m, direction, steps - 1,
                      [loss |-> loss,
                       straight |-> st.straight + 1,
                       pos |-> r.pos,
                       direction |-> st.direction,
                       debugger |-> DebuggerPush(st.debugger, r.pos,
                                                 direction, loss,
                                                 st.straight + 1)])

\* the loop `for _ in 0..steps` of get_next_states; None once a step has
\* left the matrix (the `?`)
RECURSIVE Walk(_, _, _, _)
Walk(m, direction, steps, st) ==
    IF steps = 0 THEN Some(st)
    ELSE LET o == safe_matrix_add_and_get(st.pos, m, direction)
             r == Unwrap(o)
         IN IF o = None THEN None
            ELSE Walk(m, direction, steps - 1,
                      [loss |-> st.loss + r.value,
                       straight |-> st.straight + 1,
                       pos |-> r.pos,
                       direction |-> st.direction,
                       debugger |-> DebuggerPush(st.debugger, r.pos,
                                                 direction,
                                                 st.loss + r.value,
                                                 st.straight + 1)])

\* a plausible slip: the first move is a single step, as every move that
\* does not turn
NextStateFirstMoveSingle(m, ck, item, direction) ==
    IF item.direction # None /\ direction = turn_back(Unwrap(item.direction))
    THEN None
    ELSE LET same == item.direction = Some(direction)
             steps == IF same \/ item.direction = None
                      THEN 1 ELSE ck.min_steps
             straight == IF item.direction # None /\ ~same
                         THEN 0 ELSE item.straight
             moved == Walk(m, direction, steps,
                           [item EXCEPT !.straight = straight])
         IN IF moved = None THEN None
            ELSE IF ~check(ck, Unwrap(moved).straight) THEN None
            ELSE Some([Unwrap(moved) EXCEPT !.direction = Some(direction)])

\* a plausible slip: the run length is not reset when the direction changes
NextStateKeepsRun(m, ck, item, direction) ==
    IF item.direction # None /\ direction = turn_back(Unwrap(item.direction))
    THEN None
    ELSE LET same == item.direction = Some(direction)
             steps == IF same THEN 1 ELSE ck.min_steps
             moved == Walk(m, direction, steps, item)
         IN IF moved = None THEN None
            ELSE IF ~check(ck, Unwrap(moved).straight) THEN None
            ELSE Some([Unwrap(moved) EXCEPT !.direction = Some(direction)])

\* the closure of get_next_states, applied to one direction
NextState(m, ck, item, direction) ==
    IF item.direction # None /\ direction = turn_back(Unwrap(item.direction))
    THEN None
    ELSE LET same == item.direction = Some(direction)
             steps == IF same THEN 1 ELSE ck.min_steps
             straight == IF item.direction # None /\ ~same
                         THEN 0 ELSE item.straight
             moved == Walk(m, direction, steps,
                           [item EXCEPT !.straight = straight])
         IN IF moved = None THEN None
            ELSE IF ~check(ck, Unwrap(moved).straight) THEN None
            ELSE Some([Unwrap(moved) EXCEPT !.direction = Some(direction)])

\* filter_map over Direction::iter
RECURSIVE FilterMap(_, _, _, _)
FilterMap(m, ck, item, i) ==
    IF i > Len(DirectionIter) THEN <<>>
    ELSE LET n == NextState(m, ck, item, DirectionIter[i]) IN
         n \o FilterMap(m, ck, item, i + 1)

get_next_states(m, ck, item) == FilterMap(m, ck, item, 1)

\* the associated types of `impl PathFinder for HeatMap`
HeatMapFinder == [Queue |-> "BinaryHeap", Skipper |-> "FingerprintSkipper"]

\* ------------------------------------------------------------ ItemSkipper
SkipperKinds == {"FingerprintSkipper", "NoneSkipper"}

\* ItemSkipper::init
SkipperInit == {}

\* a plausible slip: the result of HashSet::insert returned as it is
SkipItemNotNegated(kind, fingerprints, item) ==
    IF kind = "FingerprintSkipper"
    THEN [skip |-> get_fingerprint(item) \notin fingerprints,
          fingerprints |-> fingerprints \cup {get_fingerprint(item)}]
    ELSE [skip |-> FALSE, fingerprints |-> fingerprints]

\* a plausible slip: the fingerprint is looked up but never recorded
SkipItemNoInsert(kind, fingerprints, item) ==
    IF kind = "FingerprintSkipper"
    THEN [skip |-> get_fingerprint(item) \in fingerprints,
          fingerprints |-> fingerprints]
    ELSE [skip |-> FALSE, fingerprints |-> fingerprints]

\* ItemSkipper::skip_item: HashSet::insert is false when the value was
\* already present
skip_item(kind, fingerprints, item) ==
    IF kind = "FingerprintSkipper"
    THEN [skip |-> get_fingerprint(item) \in fingerprints,
          fingerprints |-> fingerprints \cup {get_fingerprint(item)}]
    ELSE [skip |-> FALSE, fingerprints |-> fingerprints]

\* -------------------------------------------------------------- PathQueue
\* PathQueue::create
QueueCreate == EmptyBag

\* PathQueue::push
QueuePush(q, item) == q (+) SetToBag({item})

RECURSIVE PushAll(_, _)
PushAll(q, items) ==
    IF items = <<>> THEN q
    ELSE PushAll(QueuePush(q, Head(items)), Tail(items))

\* a plausible slip: the heap taken for a min-heap, a least element popped
PopCandidatesLeast(q) ==
    {i \in BagToSet(q) : \A j \in BagToSet(q) : Cmp(i, j) # "Greater"}

\* BinaryHeap::pop returns a greatest element; which one of several that
\* compare Equal is not specified
PopCandidates(q) ==
    {i \in BagToSet(q) : \A j \in BagToSet(q) : Cmp(i, j) # "Less"}

\* a plausible slip: the greatest element is looked at (peek) and left in
\* the heap
QueuePeekOnly(q, item) == q

\* BinaryHeap::pop takes the element out of the heap
QueueRemove(q, item) == q (-) SetToBag({item})

\* PathQueue for Vec: a stack
VecCreate == <<>>

VecPush(q, item) == Append(q, item)

\* Vec::pop returns the last element
VecPopCandidates(q) == IF q = <<>> THEN {} ELSE {q[Len(q)]}

VecRemove(q) == SubSeq(q, 1, Len(q) - 1)

\* the frontier of path finder f
QueueKinds == {"BinaryHeap", "Vec"}

Create(f) == IF f.Queue = "Vec" THEN VecCreate ELSE QueueCreate

Push(f, q, item) ==
    IF f.Queue = "Vec" THEN VecPush(q, item) ELSE QueuePush(q, item)

RECURSIVE PushEach(_, _, _)
PushEach(f, q, items) ==
    IF items = <<>> THEN q
    ELSE PushEach(f, Push(f, q, Head(items)), Tail(items))

Candidates(f, q) ==
    IF f.Queue = "Vec" THEN VecPopCandidates(q) ELSE PopCandidates(q)

Remove(f, q, item) ==
    IF f.Queue = "Vec" THEN VecRemove(q) ELSE QueueRemove(q, item)

\* the states pending in the frontier
Pending(f, q) == IF f.Queue = "Vec" THEN Len(q) ELSE BagCardinality(q)

\* --------------------------------------------------------- find_best_path
\* a plausible slip: the skipper is asked a second time before the
\* successors are generated
VisitAsksTwice(m, ck, kind, fingerprints, item) ==
    IF is_finished(m, item)
    THEN [finished |-> TRUE, queried |-> FALSE, skipped |-> FALSE,
          fingerprints |-> fingerprints, expanded |-> FALSE, next |-> <<>>]
    ELSE LET s == skip_item(kind, fingerprints, item)
             t == skip_item(kind, s.fingerprints, item)
         IN IF s.skip \/ t.skip
            THEN [finished |-> FALSE, queried |-> TRUE, skipped |-> TRUE,
                  fingerprints |-> t.fingerprints, expanded |-> FALSE,
                  next |-> <<>>]
            ELSE [finished |-> FALSE, queried |-> TRUE, skipped |-> FALSE,
                  fingerprints |-> t.fingerprints, expanded |-> TRUE,
                  next |-> get_next_states(m, ck, item)]

\* a plausible slip: the skipper is asked before the goal test
VisitSkipFirst(m, ck, kind, fingerprints, item) ==
    LET s == skip_item(kind, fingerprints, item) IN
    IF s.skip
    THEN [finished |-> FALSE, queried |-> TRUE, skipped |-> TRUE,
          fingerprints |-> s.fingerprints, expanded |-> FALSE,
          next |-> <<>>]
    ELSE IF is_finished(m, item)
    THEN [finished |-> TRUE, queried |-> TRUE, skipped |-> FALSE,
          fingerprints |-> s.fingerprints, expanded |-> FALSE,
          next |-> <<>>]
    ELSE [finished |-> FALSE, queried |-> TRUE, skipped |-> FALSE,
          fingerprints |-> s.fingerprints, expanded |-> TRUE,
          next |-> get_next_states(m, ck, item)]

\* the body of the `while let Some(item) = queue.pop()` loop for one item
Visit(m, ck, kind, fingerprints, item) ==
    IF is_finished(m, item)
    THEN [finished |-> TRUE, queried |-> FALSE, skipped |-> FALSE,
          fingerprints |-> fingerprints, expanded |-> FALSE, next |-> <<>>]
    ELSE LET s == skip_item(kind, fingerprints, item) IN
         IF s.skip
         THEN [finished |-> FALSE, queried |-> TRUE, skipped |-> TRUE,
               fingerprints |-> s.fingerprints, expanded |-> FALSE,
               next |-> <<>>]
         ELSE [finished |-> FALSE, queried |-> TRUE, skipped |-> FALSE,
               fingerprints |-> s.fingerprints, expanded |-> TRUE,
               next |-> get_next_states(m, ck, item)]

\* ------------------------------------------------------------- best_path
\* a plausible slip: exhaustion reported as an empty-map error
BestPathResultWrongError(r) ==
    IF r = None THEN [tag |-> "Err", value |-> "HeadMapMustNotBeEmpty"]
    ELSE [tag |-> "Ok", value |-> Unwrap(r).loss]

\* HeatMap::best_path: map(|heat_flow| heat_flow.loss).ok_or(NoBestPathFound)
BestPathResult(r) ==
    IF r = None THEN [tag |-> "Err", value |-> "NoBestPathFound"]
    ELSE [tag |-> "Ok", value |-> Unwrap(r).loss]

\* the errors of FromStr for HeatMap
ConstructionErrors ==
    {"ParseIntError", "NoAsciiNumber", "HeadMapMustNotBeEmpty",
     "HeatMapMustBeRectangle"}

\* ------------------------------------------------------------------ grids
Rows(w) == [1..w -> Weights]

\* the maps FromStr for HeatMap accepts: non-empty, rectangular, digits
Grids ==
    UNION {[1..h -> Rows(w)] :
             <<w, h>> \in {s \in (1..MaxCells) \X (1..MaxCells) :
                              s[1] * s[2] <= MaxCells}}

Width(m) == Len(m[1])
Height(m) == Len(m)

\* ---------------------------------------------------------------- FromStr
\* the characters '0' to '9'
DigitChars == <<"0", "1", "2", "3", "4", "5", "6", "7", "8", "9">>

\* the line feed
NL == "LF"

\* char::to_digit(10)
to_digit(c) ==
    IF \E i \in DOMAIN DigitChars : DigitChars[i] = c
    THEN Some((CHOOSE i \in DOMAIN DigitChars : DigitChars[i] = c) - 1)
    ELSE None

\* str::lines: the text between line feeds; a last line that is empty is
\* not a line
RECURSIVE SplitLines(_, _)
SplitLines(s, cur) ==
    IF s = <<>> THEN (IF cur = <<>> THEN <<>> ELSE <<cur>>)
    ELSE IF Head(s) = NL THEN <<cur>> \o SplitLines(Tail(s), <<>>)
    ELSE SplitLines(Tail(s), Append(cur, Head(s)))

lines(s) == SplitLines(s, <<>>)

\* the inner try_collect: the digits of a row, or the error of the first
\* character that is no digit (the character itself is not kept here)
ParseRow(row) ==
    IF \E i \in DOMAIN row : to_digit(row[i]) = None
    THEN [tag |-> "Err", value |-> "NoAsciiNumber"]
    ELSE [tag |-> "Ok",
          value |-> [i \in DOMAIN row |-> Unwrap(to_digit(row[i]))]]

\* a plausible slip: the rectangle is tested before the emptiness
FromStrRectangleFirst(text) ==
    LET rows == [i \in DOMAIN lines(text) |-> ParseRow(lines(text)[i])]
        m == [i \in DOMAIN rows |-> rows[i].value]
    IN IF \E i \in DOMAIN rows : rows[i].tag = "Err"
       THEN [tag |-> "Err", value |-> "NoAsciiNumber"]
       ELSE IF \E i, j \in DOMAIN m : Len(m[i]) # Len(m[j])
       THEN [tag |-> "Err", value |-> "HeatMapMustBeRectangle"]
       ELSE IF m = <<>> \/ m[1] = <<>>
       THEN [tag |-> "Err", value |-> "HeadMapMustNotBeEmpty"]
       ELSE [tag |-> "Ok",
             value |-> [map |-> m,
                        checker |-> HeatCheckerNew(DefaultMinSteps,
                                                   DefaultMaxSteps)]]

\* FromStr for HeatMap
from_str(text) ==
    LET rows == [i \in DOMAIN lines(text) |-> ParseRow(lines(text)[i])]
        m == [i \in DOMAIN rows |-> rows[i].value]
    IN IF \E i \in DOMAIN rows : rows[i].tag = "Err"
       THEN [tag |-> "Err", value |-> "NoAsciiNumber"]
       ELSE IF m = <<>> \/ m[1] = <<>>
       THEN [tag |-> "Err", value |-> "HeadMapMustNotBeEmpty"]
       ELSE IF \E i, j \in DOMAIN m : Len(m[i]) # Len(m[j])
       THEN [tag |-> "Err", value |-> "HeatMapMustBeRectangle"]
       ELSE [tag |-> "Ok",
             value |-> [map |-> m,
                        checker |-> HeatCheckerNew(DefaultMinSteps,
                                                   DefaultMaxSteps)]]

\* a text from_str reads map m from: the rows of digits, a line feed
\* between them
RECURSIVE Text(_)
Text(m) ==
    LET row == [i \in DOMAIN Head(m) |-> DigitChars[Head(m)[i] + 1]] IN
    IF Len(m) = 1 THEN row ELSE row \o <<NL>> \o Text(Tail(m))

\* the characters the inputs are made of
Alphabet == {"0", "1", "x", NL}

\* the inputs: the texts of the maps and every short text
Inputs ==
    {Text(g) : g \in Grids} \cup
    UNION {[1..n -> Alphabet] : n \in 0..MaxInputLen}

\* ---------------------------------------------------------------- actions
\* the state FromStr for HeatMap leaves: the parsed map, HeatChecker::new(1, 3)
Init ==
    /\ map \in Grids
    /\ input = Text(map)
    /\ checker = HeatCheckerNew(DefaultMinSteps, DefaultMaxSteps)
    /\ finder = HeatMapFinder
    /\ pc = "parsed"
    /\ queue = QueueCreate
    /\ skipper = SkipperInit
    /\ pops = 0
    /\ expanded = 0
    /\ tied = FALSE
    /\ last = None
    /\ firsts = {}
    /\ result = None
    /\ answer = None
    /\ previous = None

\* the arguments HeatChecker::new is called with
AnyPairs == (0..MaxSteps) \X (0..MaxSteps)

\* those that are run-length constraints: 1 <= min_steps <= max_steps
ValidPairs == {p \in AnyPairs : 1 <= p[1] /\ p[1] <= p[2]}

ValidChecker(ck) == 1 <= ck.min_steps /\ ck.min_steps <= ck.max_steps

\* map.set_checker(HeatChecker::new(min_steps, max_steps)), the assertion
\* of new holding
SetChecker(pairs) ==
    /\ pc = "parsed"
    /\ \E p \in pairs :
          /\ NewAccepts(p[1], p[2])
          /\ checker' = HeatCheckerNew(p[1], p[2])
    /\ pc' = "configured"
    /\ UNCHANGED <<input, map, finder, queue, skipper, pops, expanded, tied,
                   last, firsts, result, answer, previous>>

\* input.parse()? of part1 and part2: the HeatMap, or the error returned to
\* the caller
Parse ==
    /\ pc = "input"
    /\ LET r == from_str(input) IN
       IF r.tag = "Ok"
       THEN /\ map' = r.value.map
            /\ checker' = r.value.checker
            /\ pc' = "parsed"
            /\ UNCHANGED answer
       ELSE /\ answer' = Some(r)
            /\ pc' = "failed"
            /\ UNCHANGED <<map, checker>>
    /\ UNCHANGED <<input, finder, queue, skipper, pops, expanded, tied, last,
                   firsts, result, previous>>

\* HeatChecker::new(min_steps, max_steps), the assertion failing: a panic
NewPanics ==
    /\ pc = "parsed"
    /\ \E p \in AnyPairs : ~NewAccepts(p[1], p[2])
    /\ pc' = "panicked"
    /\ UNCHANGED <<input, map, checker, finder, queue, skipper, pops,
                   expanded, tied, last, firsts, result, answer, previous>>

\* find_best_path up to the loop: the skipper and the queue are created and
\* the start item pushed.  f gives the associated types of the path finder.
BestPath(f) ==
    /\ pc \in {"parsed", "configured", "done"}
    /\ previous' = IF pc = "done"
                   THEN Some([finder |-> finder, tied |-> tied,
                              answer |-> Unwrap(answer)])
                   ELSE previous
    /\ finder' = f
    /\ skipper' = SkipperInit
    /\ queue' = Push(f, Create(f), get_start_item(map))
    /\ pops' = 0
    /\ expanded' = 0
    /\ tied' = FALSE
    /\ last' = None
    /\ firsts' = {}
    /\ result' = None
    /\ answer' = None
    /\ pc' = "search"
    /\ UNCHANGED <<input, map, checker>>

\* what the loop does with the extracted item
Iterate(item) ==
    LET v == Visit(map, checker, finder.Skipper, skipper, item) IN
    /\ pops' = pops + 1
    /\ tied' = (tied \/ Cardinality(Candidates(finder, queue)) > 1)
    /\ last' = Some([item |-> item, finished |-> v.finished,
                     queried |-> v.queried, skipped |-> v.skipped,
                     pushed |-> Len(v.next), next |-> v.next])
    /\ firsts' = IF \E e \in firsts : e[1] = get_fingerprint(item)
                 THEN firsts
                 ELSE firsts \cup {<<get_fingerprint(item), item.loss>>}
    /\ skipper' = v.fingerprints
    /\ expanded' = IF v.expanded THEN expanded + 1 ELSE expanded
    /\ queue' = PushEach(finder, Remove(finder, queue, item), v.next)
    /\ IF v.finished
       THEN /\ result' = Some(item)
            /\ answer' = Some(BestPathResult(Some(item)))
            /\ pc' = "done"
       ELSE UNCHANGED <<result, answer, pc>>
    /\ UNCHANGED <<input, map, checker, finder, previous>>

\* the extractions explored in an invocation of this path finder
PopLimit(f) == IF f.Skipper = "NoneSkipper" THEN MaxNonePops ELSE MaxPops

\* the extracted item is the goal: return Some(item)
Found ==
    /\ pc = "search"
    /\ pops < PopLimit(finder)
    /\ \E item \in Candidates(finder, queue) :
          /\ Visit(map, checker, finder.Skipper, skipper, item).finished
          /\ Iterate(item)

\* the skipper has seen the extracted item: continue
Skip ==
    /\ pc = "search"
    /\ pops < PopLimit(finder)
    /\ \E item \in Candidates(finder, queue) :
          /\ Visit(map, checker, finder.Skipper, skipper, item).skipped
          /\ Iterate(item)

\* the successors of the extracted item are pushed
Expand ==
    /\ pc = "search"
    /\ pops < PopLimit(finder)
    /\ \E item \in Candidates(finder, queue) :
          /\ Visit(map, checker, finder.Skipper, skipper, item).expanded
          /\ Iterate(item)

\* queue.pop() is None: the loop ends and find_best_path returns None
Exhausted ==
    /\ pc = "search"
    /\ Pending(finder, queue) = 0
    /\ result' = None
    /\ answer' = Some(BestPathResult(None))
    /\ pc' = "done"
    /\ UNCHANGED <<input, map, checker, finder, queue, skipper, pops,
                   expanded, tied, last, firsts, previous>>

Loop == Found \/ Skip \/ Expand \/ Exhausted

Next ==
    \/ SetChecker(ValidPairs)
    \/ NewPanics
    \/ BestPath(HeatMapFinder)
    \/ Found
    \/ Skip
    \/ Expand
    \/ Exhausted

Spec == Init /\ [][Next]_vars

\* HeatMap with every checker HeatChecker::new returns, on small maps
InitAny == Init /\ Width(map) * Height(map) <= MaxAnyCells

NextAny ==
    \/ SetChecker(AnyPairs)
    \/ NewPanics
    \/ BestPath(HeatMapFinder)
    \/ Found
    \/ Skip
    \/ Expand
    \/ Exhausted

SpecAny == InitAny /\ [][NextAny]_vars

\* Day::part1 and Day::part2 on a text: part1 parses and searches, part2
\* parses, sets HeatChecker::new(4, 10) and searches
InitDay ==
    /\ input \in Inputs
    /\ map = <<>>
    /\ checker = HeatCheckerNew(DefaultMinSteps, DefaultMaxSteps)
    /\ finder = HeatMapFinder
    /\ pc = "input"
    /\ queue = QueueCreate
    /\ skipper = SkipperInit
    /\ pops = 0
    /\ expanded = 0
    /\ tied = FALSE
    /\ last = None
    /\ firsts = {}
    /\ result = None
    /\ answer = None
    /\ previous = None

\* a plausible slip: part2 sets the constraint of part1
Part2PairsDefault == {<<DefaultMinSteps, DefaultMaxSteps>>}

\* the arguments of HeatChecker::new in part2
Part2Pairs == {<<Part2MinSteps, Part2MaxSteps>>}

NextDay ==
    \/ Parse
    \/ SetChecker(Part2Pairs)
    \/ BestPath(HeatMapFinder)
    \/ Found
    \/ Skip
    \/ Expand
    \/ Exhausted

SpecDay == InitDay /\ [][NextDay]_vars

\* the puzzle's published example, the fixture example01.txt of test_part1
\* and test_part2
ExampleMap ==
    << <<2, 4, 1, 3, 4, 3, 2, 3, 1, 1, 3, 2, 3>>,
       <<3, 2, 1, 5, 4, 5, 3, 5, 3, 5, 6, 2, 3>>,
       <<3, 2, 5, 5, 2, 4, 5, 6, 5, 4, 2, 5, 4>>,
       <<3, 4, 4, 6, 5, 8, 5, 8, 4, 5, 4, 5, 2>>,
       <<4, 5, 4, 6, 6, 5, 7, 8, 6, 7, 5, 3, 6>>,
       <<1, 4, 3, 8, 5, 9, 8, 7, 9, 8, 4, 5, 4>>,
       <<4, 4, 5, 7, 8, 7, 6, 9, 8, 7, 7, 6, 6>>,
       <<3, 6, 3, 7, 8, 7, 7, 9, 7, 9, 6, 5, 3>>,
       <<4, 6, 5, 4, 9, 6, 7, 9, 8, 6, 8, 8, 7>>,
       <<4, 5, 6, 4, 6, 7, 9, 9, 8, 6, 4, 5, 3>>,
       <<1, 2, 2, 4, 6, 8, 6, 8, 6, 5, 5, 6, 3>>,
       <<2, 5, 4, 6, 5, 4, 8, 8, 8, 7, 7, 3, 5>>,
       <<4, 3, 2, 2, 6, 7, 4, 6, 5, 5, 5, 3, 3>> >>

\* test_part1 and test_part2: the example parsed
InitExample ==
    /\ input = Text(ExampleMap)
    /\ map = ExampleMap
    /\ checker = HeatCheckerNew(DefaultMinSteps, DefaultMaxSteps)
    /\ finder = HeatMapFinder
    /\ pc = "parsed"
    /\ queue = QueueCreate
    /\ skipper = SkipperInit
    /\ pops = 0
    /\ expanded = 0
    /\ tied = FALSE
    /\ last = None
    /\ firsts = {}
    /\ result = None
    /\ answer = None
    /\ previous = None

\* the loop of find_best_path with a heap that, of the candidates that
\* compare Equal, always takes the same one
LoopFirst ==
    /\ pc = "search"
    /\ IF queue = EmptyBag
       THEN Exhausted
       ELSE Iterate(CHOOSE item \in Candidates(finder, queue) : TRUE)

NextExample ==
    \/ SetChecker(Part2Pairs)
    \/ BestPath(HeatMapFinder)
    \/ LoopFirst

SpecExample == InitExample /\ [][NextExample]_vars

\* the kernel with either skipper on the priority queue
KernelFinders == {[Queue |-> "BinaryHeap", Skipper |-> k] : k \in SkipperKinds}

NextKernel ==
    \/ SetChecker(ValidPairs)
    \/ NewPanics
    \/ \E f \in KernelFinders : BestPath(f)
    \/ Found
    \/ Skip
    \/ Expand
    \/ Exhausted

SpecKernel == Init /\ [][NextKernel]_vars

\* a map of four columns and three rows, every weight 1: with
\* HeatChecker::new(2, 2) the moves lead round its corners and never to the
\* bottom-right cell
CycleMap == [y \in 1..3 |-> [x \in 1..4 |-> 1]]

InitFrontier ==
    /\ map \in Grids \cup {CycleMap}
    /\ input = Text(map)
    /\ checker = HeatCheckerNew(DefaultMinSteps, DefaultMaxSteps)
    /\ finder = HeatMapFinder
    /\ pc = "parsed"
    /\ queue = QueueCreate
    /\ skipper = SkipperInit
    /\ pops = 0
    /\ expanded = 0
    /\ tied = FALSE
    /\ last = None
    /\ firsts = {}
    /\ result = None
    /\ answer = None
    /\ previous = None

\* the kernel with either frontier and either skipper
FrontierFinders ==
    {[Queue |-> q, Skipper |-> k] : q \in QueueKinds, k \in SkipperKinds}

\* one invocation on each map (best_path takes the map by value)
NextFrontier ==
    \/ SetChecker(ValidPairs)
    \/ NewPanics
    \/ \E f \in FrontierFinders : pc # "done" /\ BestPath(f)
    \/ Found
    \/ Skip
    \/ Expand
    \/ Exhausted

SpecFrontier == InitFrontier /\ [][NextFrontier]_vars

\* the stack frontier with the NoneSkipper: the exhaustive search
ReferenceFinder == [Queue |-> "Vec", Skipper |-> "NoneSkipper"]

\* on each map and constraint a run of the exhaustive search and then a run
\* of the path finder of HeatMap
NextReference ==
    \/ SetChecker(ValidPairs)
    \/ pc # "done" /\ BestPath(ReferenceFinder)
    \/ pc = "done" /\ finder = ReferenceFinder /\ BestPath(HeatMapFinder)
    \/ Found
    \/ Skip
    \/ Expand
    \/ Exhausted

SpecReference == Init /\ [][NextReference]_vars

\* ------------------------------------------------- reference: the rules
\* The rules on single-cell steps, independent of the compound moves of
\* get_next_states: a path leaves the top-left cell, stays inside the map,
\* never reverses the step before, and each of its straight runs, the last
\* one included, has between min_steps and max_steps cells.  A node is the
\* last step of such a path: the cell entered, the direction of the step and
\* the length of the run the step ends.
Nodes(m, ck) ==
    {[pos |-> Pos2(x, y), direction |-> d, run |-> r] :
        x \in 0..(Width(m) - 1), y \in 0..(Height(m) - 1),
        d \in Directions, r \in 1..ck.max_steps}

Inside(m, x, y) == 0 <= x /\ x < Width(m) /\ 0 <= y /\ y < Height(m)

\* the cell a step in direction d into p comes from
Before(p, d) == <<p.x - Offset(d)[1], p.y - Offset(d)[2]>>

\* the nodes a single step leads from to node n
Preds(m, ck, n) ==
    LET b == Before(n.pos, n.direction) IN
    IF ~Inside(m, b[1], b[2]) THEN {}
    ELSE IF n.run > 1
    THEN {[pos |-> Pos2(b[1], b[2]), direction |-> n.direction,
           run |-> n.run - 1]}
    ELSE {[pos |-> Pos2(b[1], b[2]), direction |-> d, run |-> r] :
            d \in Directions \ {n.direction, turn_back(n.direction)},
            r \in ck.min_steps..ck.max_steps}

\* more than any path without a repeated node costs
Far(m, ck) == Width(m) * Height(m) * 4 * ck.max_steps * MaxDigit + 1

SetMin(S) == CHOOSE x \in S : \A y \in S : x <= y

\* the first step of a path
FirstCost(m, ck, n) ==
    IF n.run = 1 /\ Before(n.pos, n.direction) = <<0, 0>>
    THEN m[n.pos.y + 1][n.pos.x + 1]
    ELSE Far(m, ck)

\* Bellman-Ford: the cheapest cost of each node, relaxed to the fixed point
RECURSIVE Relax(_, _, _)
Relax(m, ck, dist) ==
    LET better == [n \in Nodes(m, ck) |->
                     SetMin({dist[n]} \cup
                            {dist[q] + m[n.pos.y + 1][n.pos.x + 1] :
                                q \in Preds(m, ck, n)})]
    IN IF better = dist THEN dist ELSE Relax(m, ck, better)

\* the minimum, over the paths that obey the rules and end on the
\* bottom-right cell, of the sum of the weights of the cells entered; Far
\* when there is no such path
MinCost(m, ck) ==
    IF Width(m) = 1 /\ Height(m) = 1 THEN 0
    ELSE LET dist == Relax(m, ck, [n \in Nodes(m, ck) |-> FirstCost(m, ck, n)])
         IN SetMin({Far(m, ck)} \cup
                   {dist[n] : n \in {g \in Nodes(m, ck) :
                                        /\ g.pos = Pos2(Width(m) - 1,
                                                        Height(m) - 1)
                                        /\ g.run >= ck.min_steps}})

PathExists(m, ck) == MinCost(m, ck) < Far(m, ck)

Returned == pc = "done" /\ result # None

\* --------------------------------------------------------------- claims
\* C1: on HeatMap with a constraint 1 <= min_steps <= max_steps, whenever a
\* path obeying the rules leads from the top-left to the bottom-right cell,
\* find_best_path returns a state, and the loss of a returned state is the
\* minimum over all such paths of the sum of the weights of the cells
\* entered.
C1_Optimal ==
    (pc = "done" /\ finder = HeatMapFinder /\ ValidChecker(checker)) =>
        /\ PathExists(map, checker) => result # None
        /\ result # None => Unwrap(result).loss = MinCost(map, checker)

\* a search on a map of two rows and more that returned a loss above zero
\* after it had pruned a state
C1_Witness ==
    /\ Returned
    /\ finder = HeatMapFinder
    /\ ValidChecker(checker)
    /\ Width(map) >= 2 /\ Height(map) >= 2
    /\ Unwrap(result).loss >= 1
    /\ pops > expanded + 1

\* C2: the single-cell steps behind every state find_best_path returns on
\* HeatMap contain no run shorter than min_steps that a turn ends, no run
\* longer than max_steps, and no step opposite to the step before it.
C2_ConstraintRespect ==
    (Returned /\ finder = HeatMapFinder) =>
        LET dbg == Unwrap(result).debugger IN
        /\ ~dbg.reversed
        /\ dbg.longest <= checker.max_steps
        /\ dbg.shortest # None => Unwrap(dbg.shortest) >= checker.min_steps

\* C3: with the priority queue, on the same map and constraint, a run with
\* the NoneSkipper never does better than a run with the FingerprintSkipper:
\* when the NoneSkipper run returns a state, the FingerprintSkipper run
\* returns a state too, of the same loss.
C3_FingerprintSound ==
    (pc = "done" /\ previous # None
        /\ finder.Queue = "BinaryHeap"
        /\ Unwrap(previous).finder.Queue = "BinaryHeap") =>
        LET now == [skipper |-> finder.Skipper, answer |-> Unwrap(answer)]
            before == [skipper |-> Unwrap(previous).finder.Skipper,
                       answer |-> Unwrap(previous).answer]
            Sound(f, n) ==
                ( /\ f.skipper = "FingerprintSkipper"
                  /\ n.skipper = "NoneSkipper"
                  /\ n.answer.tag = "Ok" ) =>
                    /\ f.answer.tag = "Ok"
                    /\ f.answer.value = n.answer.value
        IN Sound(now, before) /\ Sound(before, now)

\* a NoneSkipper run and then a FingerprintSkipper run that pruned a state,
\* both returning a loss above zero
C3_Witness ==
    /\ pc = "done"
    /\ previous # None
    /\ Unwrap(previous).finder.Skipper = "NoneSkipper"
    /\ finder.Skipper = "FingerprintSkipper"
    /\ Unwrap(previous).answer.tag = "Ok"
    /\ Unwrap(answer).tag = "Ok"
    /\ Unwrap(answer).value >= 1
    /\ pops > expanded + 1

\* the fingerprints a search on map m with checker ck can meet
Fingerprints(m, ck) ==
    {<<Pos2(0, 0), None, 0>>} \cup
    {<<Pos2(x, y), Some(d), r>> :
        x \in 0..(Width(m) - 1), y \in 0..(Height(m) - 1),
        d \in Directions, r \in 1..ck.max_steps}

\* C4: on HeatMap with a constraint 1 <= min_steps <= max_steps the search
\* returns after finitely many extractions, on maps with zero weights and
\* on maps whose goal cannot be reached too: the skipper only ever holds
\* fingerprints of the map, the extractions made and the states pending
\* together never exceed 1 + 4 * the fingerprints the skipper holds, and
\* while the search has not returned the loop goes on (the extractions stay
\* below the number the model explores).
C4_Terminates ==
    (pc \in {"search", "done"} /\ finder = HeatMapFinder
        /\ ValidChecker(checker)) =>
        /\ skipper \subseteq Fingerprints(map, checker)
        /\ pops + BagCardinality(queue) <= 1 + 4 * Cardinality(skipper)
        /\ pops <= 1 + 4 * Cardinality(Fingerprints(map, checker))
        /\ pc = "search" => pops < PopLimit(finder)

\* a search on a map with a zero weight that ended Exhausted after it had
\* expanded more than the start state
C4_Witness ==
    /\ pc = "done"
    /\ result = None
    /\ finder = HeatMapFinder
    /\ ValidChecker(checker)
    /\ \E y \in 1..Height(map), x \in 1..Width(map) :
          <<x, y>> # <<1, 1>> /\ map[y][x] = 0
    /\ expanded >= 2

\* C5: an extracted state that satisfies is_finished is returned at once:
\* the skipper is not asked about it, no successor of it is pushed and no
\* state is extracted after it; and a state is only ever returned this way.
C5_ReturnAtOnce ==
    /\ (last # None /\ is_finished(map, Unwrap(last).item)) =>
          /\ pc = "done"
          /\ result = Some(Unwrap(last).item)
          /\ ~Unwrap(last).queried
          /\ Unwrap(last).pushed = 0
          /\ get_fingerprint(Unwrap(last).item) \notin skipper
    /\ Returned =>
          /\ last # None
          /\ result = Some(Unwrap(last).item)
          /\ is_finished(map, Unwrap(last).item)

\* the goal was returned while other states were still pending, after
\* states had been expanded and pruned
C5_Witness ==
    /\ Returned
    /\ queue # EmptyBag
    /\ expanded >= 2
    /\ pops > expanded + 1
    /\ ~Unwrap(last).queried

\* C6: for a fixed map and constraint every run of find_best_path on HeatMap
\* gives the same answer (the same loss, or Exhausted), whichever of several
\* pending states that compare Equal each extraction takes.
C6_Deterministic ==
    (pc = "done" /\ previous # None /\ finder = HeatMapFinder
        /\ Unwrap(previous).finder = HeatMapFinder) =>
        /\ Unwrap(answer).tag = Unwrap(previous).answer.tag
        /\ Unwrap(answer).tag = "Ok" =>
              Unwrap(answer).value = Unwrap(previous).answer.value

\* two runs that returned a loss above zero, each after an extraction that
\* had several candidates
C6_Witness ==
    /\ pc = "done"
    /\ previous # None
    /\ finder = HeatMapFinder /\ Unwrap(previous).finder = HeatMapFinder
    /\ tied /\ Unwrap(previous).tied
    /\ Unwrap(answer).tag = "Ok"
    /\ Unwrap(answer).value >= 1

\* C7: on a map of one cell, whatever the constraint, find_best_path returns
\* the start state with loss 0 on the first extraction; get_next_states is
\* not called and the skipper stays empty.
C7_OneCell ==
    (Width(map) = 1 /\ Height(map) = 1 /\ finder = HeatMapFinder) =>
        /\ pc = "search" => pops = 0
        /\ pc = "done" =>
              /\ result = Some(get_start_item(map))
              /\ Unwrap(answer).tag = "Ok"
              /\ Unwrap(answer).value = 0
              /\ pops = 1
              /\ expanded = 0
              /\ skipper = {}

\* a search on a map of one cell of weight above zero returned, with a
\* constraint that is not the one the parser sets
C7_Witness ==
    /\ Width(map) = 1 /\ Height(map) = 1
    /\ map[1][1] >= 1
    /\ pc = "done"
    /\ result # None
    /\ checker # HeatCheckerNew(DefaultMinSteps, DefaultMaxSteps)

\* no compound move of min_steps cells fits in the map
NoMoveFits(m, ck) ==
    ck.min_steps > Width(m) - 1 /\ ck.min_steps > Height(m) - 1

\* C8 as stated: on every map in which min_steps exceeds the longest
\* straight line (min_steps > width - 1 and min_steps > height - 1) the
\* search ends Exhausted and returns nothing.
C8_Original ==
    (pc = "done" /\ finder = HeatMapFinder /\ NoMoveFits(map, checker)) =>
        result = None

\* C8 amended: on every map of more than one cell in which min_steps
\* exceeds the longest straight line the search ends Exhausted and returns
\* nothing, having expanded the start state only.
C8_NoMoveFits ==
    ( /\ pc = "done" /\ finder = HeatMapFinder
      /\ NoMoveFits(map, checker)
      /\ (Width(map) > 1 \/ Height(map) > 1) ) =>
        /\ result = None
        /\ Unwrap(answer).tag = "Err"
        /\ expanded = 1

\* a map of two rows and two columns searched with min_steps = 2
C8_Witness ==
    /\ pc = "done"
    /\ Width(map) = 2 /\ Height(map) = 2
    /\ checker.min_steps = 2
    /\ result = None
    /\ pops = 1

\* C9: when no extracted state is the goal, find_best_path returns None and
\* best_path answers Err(NoBestPathFound), a value that is none of the
\* errors of constructing the map; no panic is met on the way.  Err is
\* answered in this case only.
C9_NoBestPathFound ==
    pc = "done" =>
        /\ answer # None
        /\ result = None <=> Unwrap(answer).tag = "Err"
        /\ result # None => Unwrap(answer).tag = "Ok"
        /\ Unwrap(answer).tag = "Err" =>
              /\ Unwrap(answer).value = "NoBestPathFound"
              /\ Unwrap(answer).value \notin ConstructionErrors

\* a search that extracted states, none of them the goal, and ended with
\* the frontier empty
C9_Witness ==
    /\ pc = "done"
    /\ result = None
    /\ queue = EmptyBag
    /\ pops >= 2
    /\ ~is_finished(map, Unwrap(last).item)

\* C10: HeatChecker::new rejects every pair that is not
\* 1 <= min_steps <= max_steps: a checker that has been set, and a checker
\* a search runs with, satisfies it.
C10_RejectsInvalid ==
    pc \in {"configured", "search", "done"} => ValidChecker(checker)

\* C11: a constraint HeatChecker::new does not accept is reported to the
\* caller as an error value; the program is never aborted by a panic.
C11_StructuredError == pc # "panicked"

\* what is wrong with a text: a character that is neither a digit nor a
\* line feed, no line or an empty first line, lines of unequal length
BadChar(text) ==
    \E i \in DOMAIN text :
        text[i] # NL /\ \A k \in DOMAIN DigitChars : DigitChars[k] # text[i]

EmptyText(text) == lines(text) = <<>> \/ lines(text)[1] = <<>>

Ragged(text) ==
    \E i, j \in DOMAIN lines(text) : Len(lines(text)[i]) # Len(lines(text)[j])

Malformed(text) == BadChar(text) \/ EmptyText(text) \/ Ragged(text)

\* C12 as stated: each of the three defects gives its own error, whatever
\* else is wrong with the text, and no search is started on a malformed text.
C12_Original ==
    /\ Malformed(input) => (pc \in {"input", "failed"} /\ pops = 0)
    /\ pc = "failed" =>
          /\ Unwrap(answer).tag = "Err"
          /\ Unwrap(answer).value # "NoBestPathFound"
          /\ EmptyText(input) =>
                Unwrap(answer).value = "HeadMapMustNotBeEmpty"
          /\ Ragged(input) => Unwrap(answer).value = "HeatMapMustBeRectangle"
          /\ BadChar(input) => Unwrap(answer).value = "NoAsciiNumber"

\* C12 amended: parsing fails, before any search, exactly on the malformed
\* texts, with an error that is not NoBestPathFound: NoAsciiNumber when a
\* character is no digit; otherwise HeadMapMustNotBeEmpty when there is no
\* row or the first row is empty; otherwise HeatMapMustBeRectangle.
C12_ParseErrors ==
    /\ Malformed(input) =>
          /\ pc \in {"input", "failed"}
          /\ pops = 0 /\ queue = EmptyBag /\ result = None
    /\ pc = "failed" =>
          /\ Malformed(input)
          /\ Unwrap(answer).tag = "Err"
          /\ Unwrap(answer).value # "NoBestPathFound"
          /\ Unwrap(answer).value =
                IF BadChar(input) THEN "NoAsciiNumber"
                ELSE IF EmptyText(input) THEN "HeadMapMustNotBeEmpty"
                ELSE "HeatMapMustBeRectangle"
    /\ pc \in {"parsed", "configured", "search", "done"} =>
          /\ ~Malformed(input)
          /\ Text(map) = IF input[Len(input)] = NL
                         THEN SubSeq(input, 1, Len(input) - 1) ELSE input

\* a text whose first line is empty and whose lines differ in length was
\* refused
C12_Witness ==
    /\ pc = "failed"
    /\ ~BadChar(input)
    /\ EmptyText(input)
    /\ Ragged(input)
    /\ Unwrap(answer).value = "HeadMapMustNotBeEmpty"

\* C13: part1 searches the parsed map with HeatChecker::new(1, 3), part2
\* the same parsed map with HeatChecker::new(4, 10); set_checker changes the
\* checker and nothing else, and once parsed the map is the one the text
\* gives, before, during and after each search; no step of the search
\* changes the map or the checker.
C13_Frame ==
    [][ /\ pc \notin {"input", "failed"} =>
              /\ map = from_str(input).value.map
              /\ map' = map
        /\ checker' # checker =>
              /\ pc = "parsed" /\ pc' = "configured"
              /\ UNCHANGED <<input, map, finder, queue, skipper, pops,
                             expanded, tied, last, firsts, result, answer,
                             previous>>
        /\ (pc = "parsed" /\ pc' = "search") =>
              checker' = HeatCheckerNew(DefaultMinSteps, DefaultMaxSteps)
        /\ (pc = "configured" /\ pc' = "search") =>
              checker' = HeatCheckerNew(Part2MinSteps, Part2MaxSteps)
        /\ pc \in {"search", "done"} =>
              /\ checker' = checker
              /\ checker \in {HeatCheckerNew(DefaultMinSteps, DefaultMaxSteps),
                              HeatCheckerNew(Part2MinSteps, Part2MaxSteps)}
      ]_vars

\* part2 returned a loss above zero
C13_Witness ==
    /\ pc = "done"
    /\ checker = HeatCheckerNew(Part2MinSteps, Part2MaxSteps)
    /\ result # None
    /\ Unwrap(result).loss >= 1
    /\ pops >= 2

\* C14 as stated: on the example part1 answers the value test_part1 expects,
\* part2 the value test_part2 expects, and the answer of part2 is different
\* from and larger than the answer of part1.
C14_Original ==
    pc = "done" =>
        /\ Unwrap(answer).tag = "Ok"
        /\ checker = HeatCheckerNew(DefaultMinSteps, DefaultMaxSteps) =>
              Unwrap(answer).value = ExpectedPart1
        /\ checker = HeatCheckerNew(Part2MinSteps, Part2MaxSteps) =>
              /\ Unwrap(answer).value = ExpectedPart2
              /\ Unwrap(answer).value > ExpectedPart1

\* C14 amended: on the example part1 answers the value test_part1 expects,
\* part2 the value test_part2 expects, and the answer of part2 is different
\* from and smaller than the answer of part1.
C14_Example ==
    pc = "done" =>
        /\ Unwrap(answer).tag = "Ok"
        /\ checker \in {HeatCheckerNew(DefaultMinSteps, DefaultMaxSteps),
                        HeatCheckerNew(Part2MinSteps, Part2MaxSteps)}
        /\ checker = HeatCheckerNew(DefaultMinSteps, DefaultMaxSteps) =>
              Unwrap(answer).value = ExpectedPart1
        /\ checker = HeatCheckerNew(Part2MinSteps, Part2MaxSteps) =>
              /\ Unwrap(answer).value = ExpectedPart2
              /\ Unwrap(answer).value < ExpectedPart1

\* part2 has answered on the example
C14_Witness ==
    /\ pc = "done"
    /\ map = ExampleMap
    /\ checker = HeatCheckerNew(Part2MinSteps, Part2MaxSteps)
    /\ Unwrap(answer).tag = "Ok"
    /\ pops > Width(map) * Height(map)

\* C15: with the BinaryHeap and the ordering of HeatFlow every extraction
\* takes a pending state whose loss is at most the loss of every state
\* pending at that moment, and the losses of the states extracted in one
\* search never decrease.
C15_LowestFirst ==
    [][ (pc = "search" /\ pops' = pops + 1 /\ finder.Queue = "BinaryHeap") =>
            /\ Unwrap(last').item \in BagToSet(queue)
            /\ \A j \in BagToSet(queue) : Unwrap(last').item.loss <= j.loss
            /\ last # None => Unwrap(last).item.loss <= Unwrap(last').item.loss
      ]_vars

\* a state of a loss above zero was extracted while a state of higher loss
\* stays pending
C15_Witness ==
    /\ pc = "search"
    /\ finder = HeatMapFinder
    /\ last # None
    /\ pops >= 3
    /\ Unwrap(last).item.loss >= 1
    /\ \E j \in BagToSet(queue) : j.loss > Unwrap(last).item.loss

\* C16: in a search with the priority queue, a state extracted after the
\* first extracted state of the same fingerprint has a loss at least the
\* loss of that first one; so a state the FingerprintSkipper discards is no
\* cheaper than the state of its fingerprint that was expanded.
C16_NoCheaperLater ==
    [][ (pc = "search" /\ pops' = pops + 1 /\ finder.Queue = "BinaryHeap") =>
            LET item == Unwrap(last').item IN
            /\ \A e \in firsts :
                  e[1] = get_fingerprint(item) => e[2] <= item.loss
            /\ Unwrap(last').skipped =>
                  /\ get_fingerprint(item) \in skipper
                  /\ \E e \in firsts :
                        e[1] = get_fingerprint(item) /\ e[2] <= item.loss
            /\ finder.Skipper = "FingerprintSkipper" =>
                  skipper = {e[1] : e \in firsts}
      ]_vars

\* the skipper discarded a state of a loss above the loss of the first
\* state of its fingerprint
C16_Witness ==
    /\ finder = HeatMapFinder
    /\ last # None
    /\ Unwrap(last).skipped
    /\ \E e \in firsts :
          /\ e[1] = get_fingerprint(Unwrap(last).item)
          /\ e[2] < Unwrap(last).item.loss

\* C17 as stated: two pending states of different fingerprints never compare
\* Equal, so every extraction has one candidate only.
C17_Original ==
    (pc = "search" /\ finder.Queue = "BinaryHeap") =>
        /\ \A i, j \in BagToSet(queue) :
              get_fingerprint(i) # get_fingerprint(j) => Cmp(i, j) # "Equal"
        /\ Cardinality(PopCandidates(queue)) <= 1

\* C17 amended: among the pending states of the lowest loss one of the
\* greatest x + y is extracted; two pending states compare Equal exactly
\* when they agree in loss and in x + y, whatever their fingerprints, and
\* which of several such states is extracted is left to the heap.
C17_SecondaryKey ==
    [][ (pc = "search" /\ finder.Queue = "BinaryHeap") =>
            /\ \A i, j \in BagToSet(queue) :
                  Cmp(i, j) = "Equal" <=>
                      (i.loss = j.loss /\ abs(i.pos) = abs(j.pos))
            /\ pops' = pops + 1 =>
                  \A j \in BagToSet(queue) :
                      j.loss = Unwrap(last').item.loss =>
                          abs(j.pos) <= abs(Unwrap(last').item.pos)
      ]_vars

\* two pending states of different positions compare Equal and both are
\* candidates of the next extraction, while a state of the same loss and a
\* smaller x + y is pending too
C17_Witness ==
    /\ pc = "search"
    /\ finder = HeatMapFinder
    /\ \E i, j \in PopCandidates(queue) :
          /\ i.pos # j.pos
          /\ Cmp(i, j) = "Equal"
          /\ \E k \in BagToSet(queue) :
                k.loss = i.loss /\ abs(k.pos) < abs(i.pos)

\* C18: find_best_path asks the skipper once about each extracted state
\* that is not a goal, after the goal test and before the successors are
\* generated: a goal is returned with the skipper untouched; a state whose
\* fingerprint the skipper did not hold is expanded, all its successors
\* pushed; a state the skipper reports as seen leaves the frontier and
\* nothing is pushed for it.
C18_QueriedOnce ==
    [][ (pc = "search" /\ pops' = pops + 1 /\ finder = HeatMapFinder) =>
            LET item == Unwrap(last').item
                fp == get_fingerprint(item)
            IN IF is_finished(map, item)
               THEN /\ ~Unwrap(last').queried
                    /\ skipper' = skipper
                    /\ expanded' = expanded
                    /\ pc' = "done"
               ELSE /\ Unwrap(last').queried
                    /\ skipper' = skipper \cup {fp}
                    /\ pc' = "search"
                    /\ Unwrap(last').skipped <=> fp \in skipper
                    /\ IF fp \in skipper
                       THEN /\ expanded' = expanded
                            /\ queue' = QueueRemove(queue, item)
                       ELSE /\ expanded' = expanded + 1
                            /\ queue' = PushAll(QueueRemove(queue, item),
                                                get_next_states(map, checker,
                                                                item))
      ]_vars

\* a state was discarded, nothing pushed for it, after states had been
\* expanded with successors pushed
C18_Witness ==
    /\ pc = "search"
    /\ finder = HeatMapFinder
    /\ last # None
    /\ Unwrap(last).queried
    /\ Unwrap(last).skipped
    /\ Unwrap(last).pushed = 0
    /\ expanded >= 2
    /\ queue # EmptyBag

\* C19: FingerprintSkipper::skip_item answers true exactly when the
\* fingerprint was in the set before the call; after the call the
\* fingerprint is in the set; during a search the set only grows.
C19_SkipItem ==
    [][ (pc = "search" /\ finder.Skipper = "FingerprintSkipper") =>
            /\ skipper \subseteq skipper'
            /\ (pops' = pops + 1 /\ Unwrap(last').queried) =>
                  LET fp == get_fingerprint(Unwrap(last').item) IN
                  /\ Unwrap(last').skipped <=> fp \in skipper
                  /\ fp \in skipper'
                  /\ skipper' \ skipper \subseteq {fp}
      ]_vars

\* skip_item has answered true for a state, the set holding several
\* fingerprints
C19_Witness ==
    /\ finder.Skipper = "FingerprintSkipper"
    /\ last # None
    /\ Unwrap(last).skipped
    /\ get_fingerprint(Unwrap(last).item) \in skipper
    /\ Cardinality(skipper) >= 3

\* C20: the kernel runs to completion under every frontier and skipper,
\* also where the goal cannot be reached and the moves form a cycle; in a
\* form a finite run refutes.  On CycleMap with HeatChecker::new(2, 2)
\* every move enters two cells and the next one must turn, so a state
\* stays on even columns and never reaches the goal in column 3, while the
\* moves lead round the corners of the map.  Every cell costs 1, so the
\* loss of a state is the number of cells it entered.  A state that is
\* expanded although its own path has passed its fingerprint before has a
\* successor of which the same is true, so the search never returns.  A
\* search that runs to completion therefore only expands states whose
\* path passes no fingerprint twice: such a state has made fewer moves
\* than there are fingerprints extracted so far, and a move enters at most
\* min_steps cells.
C20_RunsToCompletion ==
    ( /\ pc \in {"search", "done"} /\ last # None
      /\ Unwrap(last).queried /\ ~Unwrap(last).skipped
      /\ map = CycleMap
      /\ checker = HeatCheckerNew(2, 2) ) =>
        Unwrap(last).item.loss < checker.min_steps * Cardinality(firsts)

\* C21 as stated: on the same map and constraint the loss returned with the
\* stack frontier and the NoneSkipper equals the loss returned with the
\* priority queue and the FingerprintSkipper.
C21_Original ==
    ( /\ pc = "done" /\ previous # None
      /\ finder = HeatMapFinder
      /\ Unwrap(previous).finder = ReferenceFinder
      /\ Unwrap(previous).answer.tag = "Ok" ) =>
        /\ Unwrap(answer).tag = "Ok"
        /\ Unwrap(answer).value = Unwrap(previous).answer.value

\* C21 amended: when the run with the stack frontier and the NoneSkipper
\* returns a state, the run with the priority queue and the
\* FingerprintSkipper returns a state too, and its loss is not above the
\* loss of the stack run.
C21_NeverBelow ==
    ( /\ pc = "done" /\ previous # None
      /\ finder = HeatMapFinder
      /\ Unwrap(previous).finder = ReferenceFinder
      /\ Unwrap(previous).answer.tag = "Ok" ) =>
        /\ Unwrap(answer).tag = "Ok"
        /\ Unwrap(answer).value <= Unwrap(previous).answer.value

\* the stack run returned a loss above the loss the priority queue returned
\* afterwards, on a map of two rows and two columns at least
C21_Witness ==
    /\ pc = "done" /\ previous # None
    /\ finder = HeatMapFinder
    /\ Unwrap(previous).finder = ReferenceFinder
    /\ Unwrap(previous).answer.tag = "Ok"
    /\ Unwrap(answer).tag = "Ok"
    /\ Unwrap(answer).value < Unwrap(previous).answer.value
    /\ Width(map) >= 2 /\ Height(map) >= 2

\* the position k cells from p in direction d, inside the matrix or not
Ahead(p, d, k) == [x |-> p.x + k * Offset(d)[1], y |-> p.y + k * Offset(d)[2]]

\* p is a cell of the matrix
InGrid(m, p) == 0 <= p.x /\ p.x < Len(m[1]) /\ 0 <= p.y /\ p.y < Len(m)

\* the loop has called get_next_states for the item extracted last
ExpandedLast ==
    /\ pc \in {"search", "done"}
    /\ last # None
    /\ Unwrap(last).queried
    /\ ~Unwrap(last).skipped

\* the successors get_next_states gave for the item extracted last that
\* have direction d
NextIn(d) ==
    {i \in 1..Len(Unwrap(last).next) :
        Unwrap(last).next[i].direction = Some(d)}

\* C22: from a state with incoming direction D and run length R,
\* get_next_states yields a successor in direction D exactly when
\* R < max_steps and the next cell in direction D is in the map; there is
\* one such successor, it is one cell further and has run length R + 1.
C22_SameDirection ==
    (ExpandedLast /\ Unwrap(last).item.direction # None) =>
        LET item == Unwrap(last).item
            D == Unwrap(item.direction)
            R == item.straight
        IN /\ NextIn(D) # {} <=>
                 (R < checker.max_steps /\ InGrid(map, Ahead(item.pos, D, 1)))
           /\ Cardinality(NextIn(D)) <= 1
           /\ \A i \in NextIn(D) :
                 /\ Unwrap(last).next[i].pos = Ahead(item.pos, D, 1)
                 /\ Unwrap(last).next[i].straight = R + 1

\* a state went on in its direction and reached a run of max_steps >= 2
C22_Witness ==
    /\ ExpandedLast
    /\ Unwrap(last).item.direction # None
    /\ checker.max_steps >= 2
    /\ \E i \in NextIn(Unwrap(Unwrap(last).item.direction)) :
          Unwrap(last).next[i].straight = checker.max_steps

\* C23: from a state with incoming direction D get_next_states yields no
\* successor whose direction is the reverse of D, and in the single-cell
\* steps behind a successor no step is the reverse of the step before it
\* (the path never re-enters the cell it has just left), whatever
\* constraint HeatChecker::new has accepted.
C23_NoReverse ==
    ExpandedLast =>
        \A i \in 1..Len(Unwrap(last).next) :
            LET n == Unwrap(last).next[i] IN
            /\ Unwrap(last).item.direction # None =>
                  n.direction #
                      Some(turn_back(Unwrap(Unwrap(last).item.direction)))
            /\ ~n.debugger.reversed

\* the directions perpendicular to d
Perpendicular(d) == Directions \ {d, turn_back(d)}

\* the k cells from p in direction d are all cells of the matrix
Fits(m, p, d, k) == \A j \in 1..k : InGrid(m, Ahead(p, d, j))

\* C24: a successor in a direction perpendicular to the incoming direction
\* comes from a state whose run length is at least min_steps; it is
\* min_steps cells further in the new direction and has run length
\* min_steps; there is one for each perpendicular direction in which
\* min_steps cells fit in the map, and none otherwise.
C24_Turn ==
    (ExpandedLast /\ Unwrap(last).item.direction # None) =>
        LET item == Unwrap(last).item IN
        \A P \in Perpendicular(Unwrap(item.direction)) :
            /\ NextIn(P) # {} <=> Fits(map, item.pos, P, checker.min_steps)
            /\ Cardinality(NextIn(P)) <= 1
            /\ \A i \in NextIn(P) :
                  /\ item.straight >= checker.min_steps
                  /\ Unwrap(last).next[i].pos =
                         Ahead(item.pos, P, checker.min_steps)
                  /\ Unwrap(last).next[i].straight = checker.min_steps

\* a state away from the start cell turned, the turn a compound move of two
\* cells
C24_Witness ==
    /\ ExpandedLast
    /\ Unwrap(last).item.direction # None
    /\ checker.min_steps = 2
    /\ Unwrap(last).item.pos # Pos2(0, 0)
    /\ \E P \in Perpendicular(Unwrap(Unwrap(last).item.direction)) :
          NextIn(P) # {}

\* C25: the successors of the start state (top-left cell, no direction, run
\* length 0, loss 0) are compound moves of min_steps cells: one for each of
\* the four directions in which min_steps cells fit in the map, min_steps
\* cells from the top-left cell, with run length min_steps; no successor
\* has moved fewer cells.
C25_FirstMove ==
    (ExpandedLast /\ Unwrap(last).item.direction = None) =>
        LET item == Unwrap(last).item IN
        /\ item.pos = Pos2(0, 0) /\ item.straight = 0 /\ item.loss = 0
        /\ \A d \in Directions :
              /\ NextIn(d) # {} <=> Fits(map, item.pos, d, checker.min_steps)
              /\ Cardinality(NextIn(d)) <= 1
              /\ \A i \in NextIn(d) :
                    /\ Unwrap(last).next[i].pos =
                           Ahead(item.pos, d, checker.min_steps)
                    /\ Unwrap(last).next[i].straight = checker.min_steps
        /\ \A i \in 1..Len(Unwrap(last).next) :
              Unwrap(last).next[i].direction # None

\* the start state was expanded with min_steps = 2 and gave a successor to
\* the East and one to the South
C25_Witness ==
    /\ ExpandedLast
    /\ Unwrap(last).item.direction = None
    /\ checker.min_steps = 2
    /\ NextIn("East") # {}
    /\ NextIn("South") # {}

\* the cells a move of item in direction d has to enter
Steps(ck, item, d) == IF item.direction = Some(d) THEN 1 ELSE ck.min_steps

\* the states pending in the frontier
PendingItems(f, q) ==
    IF f.Queue = "Vec" THEN {q[i] : i \in 1..Len(q)} ELSE BagToSet(q)

\* C26: a move that would leave the map at any of its cells yields no
\* successor, never a shorter move; every state in the frontier, and every
\* successor generated, is at a cell of the map; a move that has to enter a
\* cell to the West from column 0 or to the North from row 0 yields
\* nothing.
C26_StaysInside ==
    /\ pc \in {"search", "done"} =>
          \A it \in PendingItems(finder, queue) : InGrid(map, it.pos)
    /\ ExpandedLast =>
          LET item == Unwrap(last).item IN
          /\ \A d \in Directions :
                ~Fits(map, item.pos, d, Steps(checker, item, d)) =>
                    NextIn(d) = {}
          /\ (item.pos.x = 0 /\ Steps(checker, item, "West") >= 1) =>
                NextIn("West") = {}
          /\ (item.pos.y = 0 /\ Steps(checker, item, "North") >= 1) =>
                NextIn("North") = {}
          /\ \A i \in 1..Len(Unwrap(last).next) :
                InGrid(map, Unwrap(last).next[i].pos)

\* a compound move of two cells whose first cell is in the map and whose
\* second is not gave no successor, from a state in column 0 or row 0
C26_Witness ==
    /\ ExpandedLast
    /\ checker.min_steps = 2
    /\ Unwrap(last).item.direction # None
    /\ Unwrap(last).item.pos.x = 0 \/ Unwrap(last).item.pos.y = 0
    /\ \E d \in Perpendicular(Unwrap(Unwrap(last).item.direction)) :
          /\ InGrid(map, Ahead(Unwrap(last).item.pos, d, 1))
          /\ ~InGrid(map, Ahead(Unwrap(last).item.pos, d, 2))
          /\ NextIn(d) = {}

\* the weight of the cell p of the matrix
Weight(m, p) == m[p.y + 1][p.x + 1]

\* the sum of the weights of the k cells from p in direction d
RECURSIVE SumAhead(_, _, _, _)
SumAhead(m, p, d, k) ==
    IF k = 0 THEN 0
    ELSE SumAhead(m, p, d, k - 1) + Weight(m, Ahead(p, d, k))

\* C27: the loss of a state is the sum of the weights of the cells entered
\* along the path behind it, the start cell, which no move enters first,
\* not counted: the start state has loss 0, and the loss of a successor is
\* the loss of the state it comes from plus the weight of every cell its
\* move enters, the cells a compound move passes included.
C27_LossIsSum ==
    /\ pc \in {"search", "done"} =>
          \A it \in PendingItems(finder, queue) :
              it.direction = None => it.loss = 0
    /\ ExpandedLast =>
          LET item == Unwrap(last).item IN
          /\ item.direction = None => item.loss = 0
          /\ \A i \in 1..Len(Unwrap(last).next) :
                LET n == Unwrap(last).next[i]
                    d == Unwrap(n.direction)
                IN n.loss = item.loss
                            + SumAhead(map, item.pos, d,
                                       Steps(checker, item, d))

\* on a map whose start cell weighs 1, a state with a loss gave a successor
\* by a compound move of two cells that both weigh 1
C27_Witness ==
    /\ ExpandedLast
    /\ Weight(map, Pos2(0, 0)) = 1
    /\ checker.min_steps = 2
    /\ Unwrap(last).item.loss >= 2
    /\ \E i \in 1..Len(Unwrap(last).next) :
          /\ Unwrap(last).next[i].direction # Unwrap(last).item.direction
          /\ Unwrap(last).next[i].loss = Unwrap(last).item.loss + 2

\* the number of single-cell steps in the direction of the state that end
\* the path behind it
RunBehind(it) ==
    IF it.debugger.direction = it.direction THEN it.debugger.run ELSE 0

\* C28: the run length of every state in the frontier is the number of
\* single-cell steps in its direction that end the path behind it; the
\* start state alone has no direction and run length 0; every other state
\* has a direction and a run length from min_steps to max_steps.
C28_RunLength ==
    pc \in {"search", "done"} =>
        \A it \in PendingItems(finder, queue) :
            IF it.direction = None
            THEN it = get_start_item(map)
            ELSE /\ it.straight = RunBehind(it)
                 /\ checker.min_steps <= it.straight
                 /\ it.straight <= checker.max_steps

\* C29: at every point of a search on HeatMap the fingerprints the
\* FingerprintSkipper holds and the states pending in the frontier are each
\* at most width * height * 4 * max_steps.
C29_ResourceBound ==
    (pc \in {"search", "done"} /\ finder = HeatMapFinder) =>
        LET bound == Width(map) * Height(map) * 4 * checker.max_steps IN
        /\ Cardinality(skipper) <= bound
        /\ Pending(finder, queue) <= bound

\* the bottom-right cell of the matrix
Goal(m) == Pos2(Len(m[1]) - 1, Len(m) - 1)

\* C30: on a map of more than one cell, a state find_best_path returns on
\* HeatMap is at the bottom-right cell and the path behind it ends there
\* with a straight run of at least min_steps cells; no successor comes from
\* a move that passes the bottom-right cell before its last cell; and the
\* skipper never holds a fingerprint whose position is the bottom-right
\* cell.
C30_GoalOnlyAtEnd ==
    ( /\ pc \in {"search", "done"} /\ finder = HeatMapFinder
      /\ Width(map) * Height(map) > 1 ) =>
        /\ \A fp \in skipper : fp[1] # Goal(map)
        /\ Returned =>
              LET item == Unwrap(result) IN
              /\ item.pos = Goal(map)
              /\ item.direction # None
              /\ item.straight >= checker.min_steps
              /\ RunBehind(item) >= checker.min_steps
        /\ ExpandedLast =>
              \A i \in 1..Len(Unwrap(last).next) :
                  LET n == Unwrap(last).next[i]
                      d == Unwrap(n.direction)
                      k == Steps(checker, Unwrap(last).item, d)
                  IN \A j \in 1..(k - 1) :
                        Ahead(Unwrap(last).item.pos, d, j) # Goal(map)

\* a search with min_steps = 2 returned a state whose last move was a
\* compound move of two cells that weigh 1, the skipper holding a
\* fingerprint
C30_Witness ==
    /\ Returned
    /\ finder = HeatMapFinder
    /\ checker.min_steps = 2
    /\ Unwrap(result).straight = 2
    /\ Unwrap(result).loss = 2
    /\ pops >= 2
    /\ skipper # {}

====
